---- MODULE Spec2Model ----
(***************************************************************************)
(* Retrieval plugin: the /query handler and the rerank step it applies to  *)
(* the datastore's results (server/main.py), with the reranker entry point *)
(* (services/rerank.py).                                                   *)
(*                                                                         *)
(* A query result ("block") is a record [query, results]; results is the   *)
(* list of DocumentChunkWithScore objects in similarity order.  A chunk is *)
(* a record [id, text].  Python values that the code sorts are tagged with *)
(* their Python type, because sorted() compares them with "<" and a type   *)
(* without ordering raises TypeError.                                      *)
(***************************************************************************)
EXTENDS Integers, Sequences, FiniteSets, TLC

\* ---------------------------------------------------------------- bounds
NumTexts == 3       \* distinct texts that are embedded
MaxTexts == 3       \* texts in one embed_documents call
MaxCache == 2       \* CACHE_SIZE is drawn from 0..MaxCache
MaxBatch == 2       \* DEFAULT_BATCH is drawn from 1..MaxBatch
HashValues == 2     \* distinct values of the shortened hash
NumWorkers == 2     \* concurrent callers
MaxBlocks == 2      \* queries per request
MaxPassages == 3    \* chunks the datastore returns per query
MaxScore == 1       \* reranker scores are drawn from 0..MaxScore
MaxWindow == 3      \* RERANK_K and RERANK_FINAL_N are drawn from 1..MaxWindow

VARIABLES
    RERANK_ENABLE,   \* main.py:41
    RERANK_K,        \* main.py:42
    RERANK_FINAL_N,  \* main.py:43
    pc,              \* position of the /query handler
    blocks,          \* the QueryResult objects (mutable, shared with the caller)
    i,               \* position of the for loop of _maybe_rerank
    input,           \* history: the blocks as they were passed to _maybe_rerank
    calls,           \* history: the calls of rerank(), in order
    replaced,        \* history: indices of the blocks whose results were reassigned
    failedAt,        \* history: index of the block whose iteration raised (0: none)
    raised,          \* _maybe_rerank let an exception escape
    response,        \* HTTP status of the request (0: none yet)
    \* refining a refined batch again, with a scorer that is a function of the text
    scoreOf,         \* the score the model gives each passage text
    pass,            \* how often _maybe_rerank has been entered for the batch
    firstOut,        \* history: the blocks as the first pass left them
    \* services/bge.py and services/rerank.py
    CACHE_SIZE,      \* bge.py:43
    DEFAULT_BATCH,   \* bge.py:40
    _model,          \* bge.py:45, the embedding model handle (NoModel: None)
    _R,              \* rerank.py:29, the reranker handle (NoModel: None)
    cache,           \* the lru_cache of _cached_embed_query, least recently used first
    held,            \* the list the last caller of embed_query was handed
    last,            \* history: the last call of the embedding / rerank API
    prev,            \* history: the embed_query call before the last one
    useOrder,        \* history: the texts embedded successfully, by last use
    loadFailed,      \* history: a model constructor has raised
    \* concurrent callers of _load_model / _get
    wpc,             \* position of each worker
    built,           \* history: how many handles of each model were constructed
    \* datastore/providers/chroma_datastore.py
    TZ,              \* the server's local time zone, as seconds east of UTC
    request,         \* the queries of the /query request being served
    searches,        \* history: the collection.query calls made for the request
    pure,            \* history: the last application of a filter / metadata function
    \* devices
    DEFAULT_DEVICE,  \* bge.py:39
    _DEVICE,         \* rerank.py:30
    host,            \* the process environment and what the platform probes answer
    events           \* history: what the last call did with the device, in order

refinerVars == <<RERANK_ENABLE, RERANK_K, RERANK_FINAL_N, pc, blocks, i, input, calls,
                 replaced, failedAt, raised, response>>

againVars == <<scoreOf, pass, firstOut>>

embedVars == <<CACHE_SIZE, DEFAULT_BATCH, _model, _R, cache, held, last, prev,
               useOrder, loadFailed>>

workerVars == <<wpc, built>>

storeVars == <<TZ, request, searches, pure>>

deviceVars == <<DEFAULT_DEVICE, _DEVICE, host, events>>

\* what the /query handler and _maybe_rerank never touch
others == <<againVars, embedVars, workerVars, storeVars, deviceVars>>

vars == <<refinerVars, others>>

config == <<RERANK_ENABLE, RERANK_K, RERANK_FINAL_N>>

\* ------------------------------------------------------- Python helpers
None == "<None>"

Min(a, b) == IF a <= b THEN a ELSE b
Max(a, b) == IF a >= b THEN a ELSE b

\* not x, for a string (or None) and for a list
Falsy(x) == x = None \/ x = ""

Empty(xs) == Len(xs) = 0

\* seq[:k], k >= 0
Prefix(seq, k) == SubSeq(seq, 1, Min(k, Len(seq)))

\* zip(a, b)
zip(a, b) == [j \in 1..Min(Len(a), Len(b)) |-> <<a[j], b[j]>>]

PyFloat(v) == [type |-> "float", val |-> v]
PyObject(v) == [type |-> "DocumentChunkWithScore", val |-> v]

\* whether "a < b" is defined for two values of this type
Supports_lt(k) == k.type = "float"

\* sorted(seq, key=..., reverse=True), keys[j] being the key of seq[j]: stable, descending by key; TypeError
\* as soon as two keys have to be compared and their type has no ordering
\* (a list of fewer than two elements is never compared).
\* The element at position j goes behind every element with a larger key and
\* every earlier element with an equal key.
sorted_reverse(seq, keys) ==
    LET n == Len(seq)
        k(j) == keys[j].val
        before(j) == {m \in 1..n : k(m) > k(j) \/ (k(m) = k(j) /\ m < j)}
        at(r) == CHOOSE j \in 1..n : Cardinality(before(j)) = r - 1
    IN  IF n <= 1
        THEN [raised |-> FALSE, value |-> seq]
        ELSE IF \E j \in 1..n : ~Supports_lt(keys[j])
        THEN [raised |-> TRUE, value |-> <<>>]
        ELSE [raised |-> FALSE, value |-> [r \in 1..n |-> seq[at(r)]]]

\* ------------------------------------------------------------- the data
Chunk(n) == [id |-> n, text |-> "t" \o ToString(n)]

Queries == {"", "q"}

\* what datastore.query can return for one query: the query text and the
\* chunks found, in similarity order
Blocks == {[query |-> q, results |-> [j \in 1..n |-> Chunk(j)]] :
              q \in Queries, n \in 0..MaxPassages}

RECURSIVE SeqsUpTo(_, _)
SeqsUpTo(S, n) ==
    IF n = 0 THEN {<<>>}
    ELSE LET shorter == SeqsUpTo(S, n - 1)
         IN  shorter \cup {Append(s, x) : s \in {t \in shorter : Len(t) = n - 1}, x \in S}

Batches == SeqsUpTo(Blocks, MaxBlocks)

\* ------------------------------------------------------ server/main.py
_get_attr(obj, name, default) ==
    IF name \in DOMAIN obj THEN obj[name] ELSE default

_safe_text(x) ==
    LET t == _get_attr(x, "text", "")
    IN  IF Falsy(t) THEN "" ELSE t

\* variant: the flag tested the wrong way round
RefinementDisabled_inverted == RERANK_ENABLE

RefinementDisabled == ~RERANK_ENABLE

user_query(qr) == _get_attr(qr, "query", None)

items(qr) ==
    LET r == _get_attr(qr, "results", <<>>)
    IN  IF Empty(r) THEN <<>> ELSE r

Skipped(qr) == Falsy(user_query(qr)) \/ Empty(items(qr))

K(its) == Min(RERANK_K, Len(its))

\* variant: the window starts one element late (items[1:K+1])
cand_shifted(its) == SubSeq(its, 2, Min(K(its) + 1, Len(its)))

\* variant: the window taken from the wrong end of the list (items[-K:])
cand_last(its) == SubSeq(its, Len(its) - K(its) + 1, Len(its))

cand(its) == Prefix(its, K(its))

CandTexts(its) == [j \in 1..Len(cand(its)) |-> _safe_text(cand(its)[j])]

\* key=lambda p: p[0] over zip(cand, scores)
RankKey(p) == PyObject(p[1])

ranked(its, scores) ==
    LET pairs == zip(cand(its), scores)
        s == sorted_reverse(pairs, [j \in 1..Len(pairs) |-> RankKey(pairs[j])])
    IN  [raised |-> s.raised,
         value |-> [j \in 1..Len(s.value) |-> s.value[j][1]]]

final(rk) == Prefix(rk, Max(1, Min(RERANK_FINAL_N, Len(rk))))

\* variant: a try inside the loop, around one iteration
TryScope_iteration == "iteration"

\* try: for qr in blocks: ... except: the try encloses the whole loop
TryScope == "loop"

\* variant: the handler logs and re-raises
OnException_reraise == "raise"

\* except Exception as e: log a warning, return blocks
OnException == "return"

\* ---------------------------------------------------- services/rerank.py
\* what compute_score can do with n pairs: raise, or one score per pair
ScoreOutcomes(n) ==
    {[raised |-> TRUE, value |-> <<>>]} \cup
    {[raised |-> FALSE, value |-> s] : s \in [1..n -> 0..MaxScore]}

rerank(query, passages, outcome) ==
    IF Empty(passages) THEN [raised |-> FALSE, value |-> <<>>] ELSE outcome

\* _get; r: _R, ok: whether FlagReranker(...) returns (the warmup's failure
\* is caught and changes nothing).  A handle is a positive number, None is 0.
_get(r, ok) ==
    IF r # 0 THEN [raised |-> FALSE, model |-> r, loads |-> 0]
    ELSE IF ok THEN [raised |-> FALSE, model |-> 1, loads |-> 1]
    ELSE [raised |-> TRUE, model |-> 0, loads |-> 1]

\* rerank with what it does to _R: _get() is reached only with passages
rerank_get(query, passages, r, loadOk, outcome) ==
    IF Empty(passages)
    THEN [raised |-> FALSE, value |-> <<>>, model |-> r, loads |-> 0, scored |-> <<>>]
    ELSE LET g == _get(r, loadOk)
         IN  IF g.raised
             THEN [raised |-> TRUE, value |-> <<>>, model |-> g.model, loads |-> g.loads,
                   scored |-> <<>>]
             ELSE [raised |-> rerank(query, passages, outcome).raised,
                   value |-> rerank(query, passages, outcome).value,
                   model |-> g.model, loads |-> g.loads,
                   scored |-> <<[j \in 1..Len(passages) |-> <<query, passages[j]>>]>>]

\* ------------------------------------------------------- services/bge.py
\* A text is a token 1..NumTexts.  A vector is a record [of, v]: v is the list
\* of floats, of the text whose encoding it is (history, carried along so that
\* a vector can be traced to the text it was computed for).
Texts == 1..NumTexts

TextLists == SeqsUpTo(Texts, MaxTexts)

\* dense_vecs rows the model may produce for a text
RawVecs == {<<0, 0>>, <<0, -2>>}

NoModel == 0
Handle == 1

\* hashlib.sha256(text.encode('utf-8')).hexdigest()[:16]: a function of the
\* text into fewer values than there are texts
sha256_16(text) == text % HashValues

\* np.linalg.norm of one row (the rows used have an integral norm)
l2norm(v) == CHOOSE r \in 0..(v[1] * v[1] + v[2] * v[2]) : r * r = v[1] * v[1] + v[2] * v[2]

_l2_normalize_off(mat) == mat

\* _l2_normalize, row by row: a zero norm is replaced by 1.0
_l2_normalize(mat) ==
    [j \in 1..Len(mat) |->
        LET norms == IF l2norm(mat[j].v) = 0 THEN 1 ELSE l2norm(mat[j].v)
        IN  [of |-> mat[j].of,
             v |-> <<mat[j].v[1] \div norms, mat[j].v[2] \div norms>>]]

\* the model is a function of its input: the row it gives for a text is the
\* same in every call
RowOf(text) == IF text % 2 = 0 THEN <<0, 0>> ELSE <<0, -2>>

\* _load_model; ok: whether BGEM3FlagModel(...) returns (the warmup's failure
\* is caught and changes nothing)
_load_model(m, ok) ==
    IF m # NoModel THEN [raised |-> FALSE, model |-> m, loads |-> 0]
    ELSE IF ok THEN [raised |-> FALSE, model |-> Handle, loads |-> 1]
    ELSE [raised |-> TRUE, model |-> NoModel, loads |-> 1]

ChunkAt_full_only(texts, k) ==
    IF k * DEFAULT_BATCH > Len(texts) THEN <<>>
    ELSE SubSeq(texts, (k - 1) * DEFAULT_BATCH + 1, k * DEFAULT_BATCH)

\* for i in range(0, len(texts), DEFAULT_BATCH): chunk = texts[i:i+DEFAULT_BATCH]
NumChunks(texts) == (Len(texts) + DEFAULT_BATCH - 1) \div DEFAULT_BATCH

ChunkAt(texts, k) ==
    SubSeq(texts, (k - 1) * DEFAULT_BATCH + 1, Min(k * DEFAULT_BATCH, Len(texts)))

\* what m.encode(chunk, ...) can do: raise, or one row per text of the chunk
EncodeOutcomes(chunk) ==
    {[raised |-> TRUE, vecs |-> <<>>]} \cup
    {[raised |-> FALSE, vecs |-> [j \in 1..Len(chunk) |-> [of |-> chunk[j], v |-> r[j]]]] :
        r \in [1..Len(chunk) -> RawVecs]}

\* the runs of the loop of _encode: one outcome per chunk, up to the first
\* that raises
RECURSIVE EncodeRunsFrom(_, _)
EncodeRunsFrom(texts, k) ==
    IF k > NumChunks(texts) THEN {<<>>}
    ELSE {<<o>> : o \in {x \in EncodeOutcomes(ChunkAt(texts, k)) : x.raised}} \cup
         {<<o>> \o rest : o \in {x \in EncodeOutcomes(ChunkAt(texts, k)) : ~x.raised},
                          rest \in EncodeRunsFrom(texts, k + 1)}

EncodeRuns(texts) == EncodeRunsFrom(texts, 1)

RECURSIVE Extend(_, _)
\* out.extend(...) over the chunks that were encoded
Extend(runs, k) ==
    IF k > Len(runs) \/ runs[k].raised THEN <<>>
    ELSE _l2_normalize(runs[k].vecs) \o Extend(runs, k + 1)

_encode_load_first(texts, m, loadOk, runs) ==
    LET l == _load_model(m, loadOk)
    IN  IF l.raised
        THEN [raised |-> TRUE, value |-> <<>>, model |-> l.model,
              loads |-> l.loads, encoded |-> <<>>]
        ELSE [raised |-> FALSE, value |-> <<>>, model |-> l.model,
              loads |-> l.loads, encoded |-> <<>>]

\* _encode(texts); m: _model, loadOk and runs: what the constructor and the
\* model do in this call
_encode(texts, m, loadOk, runs) ==
    IF Empty(texts)
    THEN [raised |-> FALSE, value |-> <<>>, model |-> m, loads |-> 0, encoded |-> <<>>]
    ELSE LET l == _load_model(m, loadOk)
         IN  IF l.raised
             THEN [raised |-> TRUE, value |-> <<>>, model |-> l.model,
                   loads |-> l.loads, encoded |-> <<>>]
             ELSE [raised |-> runs[Len(runs)].raised,
                   value |-> Extend(runs, 1),
                   model |-> l.model,
                   loads |-> l.loads,
                   encoded |-> [k \in 1..Len(runs) |-> ChunkAt(texts, k)]]

\* Python objects: tuple(vec) and list(cached_tuple) hold the same floats
PyTuple(vec) == [kind |-> "tuple", of |-> vec.of, v |-> vec.v]
PyList(obj) == [kind |-> "list", of |-> obj.of, v |-> obj.v]

CacheKey_hash_only(text) == <<sha256_16(text)>>

\* the key lru_cache makes of the arguments (text_hash, text)
CacheKey(text) == <<sha256_16(text), text>>

InCache(c, key) == \E j \in 1..Len(c) : c[j].key = key

lru_value(c, key) == c[CHOOSE j \in 1..Len(c) : c[j].key = key].value

lru_hit_in_place(c, key) == c

\* a hit makes the entry the most recently used one
lru_hit(c, key) ==
    LET j == CHOOSE x \in 1..Len(c) : c[x].key = key
    IN  Append(SubSeq(c, 1, j - 1) \o SubSeq(c, j + 1, Len(c)), c[j])

lru_insert_none(c, key, value) == c

\* a new entry is the most recently used one; a full cache drops its oldest;
\* maxsize 0 stores nothing
lru_insert(c, key, value) ==
    IF CACHE_SIZE <= 0 THEN c
    ELSE IF Len(c) >= CACHE_SIZE
    THEN Append(Tail(c), [key |-> key, value |-> value])
    ELSE Append(c, [key |-> key, value |-> value])

lru_miss_keeps_failure(c, key, result) ==
    lru_insert(c, key, IF result.raised THEN PyTuple([of |-> key[2], v |-> <<0, 0>>])
                       ELSE result.value)

\* a miss: the wrapped function ran; an exception leaves the cache alone
lru_miss(c, key, result) ==
    IF result.raised THEN c ELSE lru_insert(c, key, result.value)

lru_store_unchecked(c, key, value) == lru_insert(c, key, value)

\* the wrapper after the wrapped function has returned: another caller may
\* have stored the key while the function ran, and then the cache is left as
\* it is
lru_store(c, key, value) ==
    IF InCache(c, key) THEN c ELSE lru_insert(c, key, value)

\* _cached_embed_query(text_hash, text), the function body
cached_embed_query_body(text, m, loadOk, runs) ==
    LET e == _encode(<<text>>, m, loadOk, runs)
    IN  [raised |-> e.raised,
         value |-> IF e.raised THEN <<>> ELSE PyTuple(e.value[1]),
         model |-> e.model, loads |-> e.loads, encoded |-> e.encoded]

NoAlias == <<>>

NoVec == [kind |-> "none", of |-> 0, v |-> <<>>]

Handout_shared(key, cached) == [obj |-> PyList(cached), alias |-> key, mutated |-> FALSE]

\* return list(cached_tuple): a new list, no other reference to it exists
Handout(key, cached) == [obj |-> PyList(cached), alias |-> NoAlias, mutated |-> FALSE]

\* what is kept of the call before the last one
Before(call) == [op |-> call.op, arg |-> call.arg, raised |-> call.raised, ret |-> call.ret]

NoHeld == [obj |-> NoVec, alias |-> NoAlias, mutated |-> FALSE]

\* the record of one call: what it was given, how it ended, what it did to
\* the model (constructor calls, chunks passed to encode), whether the same
\* argument had been served before
NoCall == [op |-> "none", arg |-> 0, raised |-> FALSE, hit |-> FALSE, ret |-> NoVec,
           loads |-> 0, encoded |-> <<>>, again |-> FALSE]

\* the embedding and rerank services before their first call, with the
\* defaults of the configuration
EmbedIdle ==
    /\ CACHE_SIZE = 2000
    /\ DEFAULT_BATCH = 64
    /\ _model = NoModel
    /\ _R = NoModel
    /\ cache = <<>>
    /\ held = NoHeld
    /\ last = NoCall
    /\ prev = Before(NoCall)
    /\ useOrder = <<>>
    /\ loadFailed = FALSE

\* no filter or metadata function has been applied
NoPure == [op |-> "none"]

\* the datastore before a request
StoreIdle ==
    /\ TZ = 0
    /\ request = <<>>
    /\ searches = <<>>
    /\ pure = NoPure

\* ------------------------------------------------------ device selection
\* os.getenv(name): None, or the text the variable holds
NoEnv == [set |-> FALSE]
EnvText(s) == [set |-> TRUE, s |-> s]

\* if env_device: neither None nor the empty text
EnvTruthy(e) == e.set /\ e.s # ""

\* os.getenv(name, default)
getenv(e, default) == IF e.set THEN e.s ELSE default

\* str.lower() on the texts used here
lower(s) ==
    IF s \in {"true", "True", "TRUE"} THEN "true"
    ELSE IF s \in {"false", "False", "FALSE"} THEN "false"
    ELSE s

\* device.startswith("cuda") on the device names used here
startswith_cuda(d) == d \in {"cuda", "cuda:0", "cuda:1"}

\* what EMBEDDING_DEVICE and RERANK_DEVICE may hold
Overrides == {NoEnv, EnvText(""), EnvText("cpu"), EnvText("mps"), EnvText("cuda:1")}

\* what EMBEDDING_FP16 may hold
Fp16Settings == {NoEnv, EnvText("true"), EnvText("True"), EnvText("false")}

\* a host: the environment variables, platform.system(), platform.machine(),
\* torch.backends.mps.is_available() and torch.cuda.is_available()
Hosts ==
    [EMBEDDING_DEVICE : Overrides,
     RERANK_DEVICE : Overrides,
     EMBEDDING_FP16 : Fp16Settings,
     system : {"Darwin", "Linux"},
     machine : {"arm64", "x86_64"},
     mps : BOOLEAN,
     cuda : BOOLEAN]

\* a Linux host without accelerator and without settings
QuietHost ==
    [EMBEDDING_DEVICE |-> NoEnv, RERANK_DEVICE |-> NoEnv, EMBEDDING_FP16 |-> NoEnv,
     system |-> "Linux", machine |-> "x86_64", mps |-> FALSE, cuda |-> FALSE]

\* bge.py
_detect_device(h) ==
    IF EnvTruthy(h.EMBEDDING_DEVICE) THEN h.EMBEDDING_DEVICE.s
    ELSE IF h.system = "Darwin" /\ h.machine = "arm64" /\ h.mps THEN "mps"
    ELSE IF h.cuda THEN "cuda:0"
    ELSE "cpu"

_detect_rerank_device_cuda_first(h) ==
    IF EnvTruthy(h.RERANK_DEVICE) THEN h.RERANK_DEVICE.s
    ELSE IF h.cuda THEN "cuda:0"
    ELSE IF h.system = "Darwin" /\ h.machine = "arm64" /\ h.mps THEN "mps"
    ELSE "cpu"

\* rerank.py
_detect_rerank_device(h) ==
    IF EnvTruthy(h.RERANK_DEVICE) THEN h.RERANK_DEVICE.s
    ELSE IF h.system = "Darwin" /\ h.machine = "arm64" /\ h.mps THEN "mps"
    ELSE IF h.cuda THEN "cuda:0"
    ELSE "cpu"

\* _load_model: use_fp16
bge_use_fp16(device, h) ==
    startswith_cuda(device) /\ lower(getenv(h.EMBEDDING_FP16, "true")) = "true"

\* _get: use_fp16
rerank_use_fp16(device) == startswith_cuda(device)

\* a constructor call, as recorded in events
Constructor(name, device, fp16) ==
    [op |-> name, device |-> device, use_fp16 |-> fp16]

\* no accelerator, no override: both devices are the CPU
DeviceIdle ==
    /\ host = QuietHost
    /\ DEFAULT_DEVICE = _detect_device(host)
    /\ _DEVICE = _detect_rerank_device(host)
    /\ events = <<>>

\* the two lazily built models: _model of bge.py, _R of rerank.py
Kinds == {"bge", "rerank"}

Workers == 1..NumWorkers

\* a caller outside _load_model and _get
Outside == [at |-> "idle", kind |-> "none", got |-> NoModel]

WorkersIdle ==
    /\ wpc = [w \in Workers |-> Outside]
    /\ built = [m \in Kinds |-> 0]

\* ------------------------------------ datastore/providers/chroma_datastore.py
\* A date text is a record: an ISO-8601 text is [kind "iso", wall, frac, zone]
\* with wall the written date and time counted in seconds as if it were UTC,
\* frac the written tenths of a second and zone the written suffix ("" for
\* none); any other text is [kind "text", s]; None is [kind "none"].
NoDate == [kind |-> "none"]

EmptyText == [kind |-> "text", s |-> ""]

Garbage == [kind |-> "text", s |-> "yesterday"]

\* 2024-01-01T00:00:00 as seconds since 1970-01-01T00:00:00
Jan2024 == 19723 * 86400

Hour == 60 * 60

Walls == {-1, 0, Jan2024}

Tenths == {0, 5}

Zones == {"Z", "+00:00", "+01:00", ""}

IsoTexts == [kind : {"iso"}, wall : Walls, frac : Tenths, zone : Zones]

\* the server's time zone is UTC or UTC+1
LocalZones == {0, Hour}

\* Python truth of an Optional[str] that holds a date text
TruthyDate(d) == d.kind = "iso" \/ (d.kind = "text" /\ d.s # "")

\* str.replace('Z', '+00:00')
replace_Z(d) == IF d.kind = "iso" /\ d.zone = "Z" THEN [d EXCEPT !.zone = "+00:00"] ELSE d

\* datetime.fromisoformat: ValueError for a text that is no ISO date; a bare
\* Z suffix is rejected before Python 3.11 and read as UTC from 3.11 on
fromisoformat(d) ==
    IF d.kind # "iso" THEN [raised |-> TRUE]
    ELSE [raised |-> FALSE, wall |-> d.wall, frac |-> d.frac,
          aware |-> d.zone # "",
          utcoffset |-> IF d.zone = "+01:00" THEN Hour ELSE 0]

\* datetime.timestamp(): the float secs + frac / 10; a naive datetime is
\* local time
timestamp(dt, tz) ==
    [secs |-> dt.wall - (IF dt.aware THEN dt.utcoffset ELSE tz), frac |-> dt.frac]

\* int(x) of such a float: truncation toward zero
int(t) == IF t.secs >= 0 \/ t.frac = 0 THEN t.secs ELSE t.secs + 1

\* int(datetime.fromisoformat(text.replace('Z', '+00:00')).timestamp())
to_epoch(d, tz) ==
    LET dt == fromisoformat(replace_Z(d))
    IN  IF dt.raised THEN [raised |-> TRUE, value |-> 0]
        ELSE [raised |-> FALSE, value |-> int(timestamp(dt, tz))]

\* None, where the other values of the field are records
PyNone == [type |-> "NoneType"]

\* models.models.Source, a str Enum
Source(v) == [enum |-> "Source", value |-> v]

SourceValues == {"email", "file", "chat"}

\* the fields of DocumentMetadataFilter besides source and the dates
ScalarFilterFields == {"document_id", "source_id", "author"}

FilterFields == ScalarFilterFields \cup {"source", "start_date", "end_date"}

\* the dict comprehension: every field that is not None, but for the three
dict_without_special(f) ==
    [k \in {x \in ScalarFilterFields : f[x] # None} |-> f[k]]

\* output[key] = value
SetItem(d, key, value) == [k \in DOMAIN d \cup {key} |-> IF k = key THEN value ELSE d[k]]

WithSource_always(output, f) ==
    SetItem(output, "source", IF f.source # PyNone THEN f.source.value ELSE "None")

\* if query_filter.source: output["source"] = query_filter.source.value
WithSource(output, f) ==
    IF f.source # PyNone THEN SetItem(output, "source", f.source.value) ELSE output

\* if start_date and end_date / elif start_date / elif end_date
DateBranch(f) ==
    IF TruthyDate(f.start_date) /\ TruthyDate(f.end_date) THEN "both"
    ELSE IF TruthyDate(f.start_date) THEN "start"
    ELSE IF TruthyDate(f.end_date) THEN "end"
    ELSE "none"

\* _where_from_query_filter(query_filter)
_where_from_query_filter(f, tz) ==
    LET output == WithSource(dict_without_special(f), f)
        gte == to_epoch(f.start_date, tz)
        lte == to_epoch(f.end_date, tz)
        branch == DateBranch(f)
    IN  IF branch = "both"
        THEN IF gte.raised \/ lte.raised THEN [raised |-> TRUE, value |-> <<>>]
             ELSE [raised |-> FALSE,
                   value |-> SetItem(output, "$and",
                                <<[created_at |-> [op |-> "$gte", n |-> gte.value]],
                                  [created_at |-> [op |-> "$lte", n |-> lte.value]]>>)]
        ELSE IF branch = "start"
        THEN IF gte.raised THEN [raised |-> TRUE, value |-> <<>>]
             ELSE [raised |-> FALSE,
                   value |-> SetItem(output, "created_at", [op |-> "$gte", n |-> gte.value])]
        ELSE IF branch = "end"
        THEN IF lte.raised THEN [raised |-> TRUE, value |-> <<>>]
             ELSE [raised |-> FALSE,
                   value |-> SetItem(output, "created_at", [op |-> "$lte", n |-> lte.value])]
        ELSE [raised |-> FALSE, value |-> output]

PyInt(n) == [type |-> "int", value |-> n]

\* the fields of DocumentChunkMetadata that hold a str
TextMetadataFields == {"source_id", "url", "author", "document_id", "filename"}

\* if metadata.<field>: stored_metadata[<field>] = metadata.<field>
StoreIfTruthy(stored, m, field) ==
    IF m[field] # None /\ m[field] # "" THEN SetItem(stored, field, m[field]) ELSE stored

RECURSIVE StoreTexts(_, _, _)
StoreTexts(stored, m, fields) ==
    IF fields = {} THEN stored
    ELSE LET field == CHOOSE x \in fields : TRUE
         IN  StoreTexts(StoreIfTruthy(stored, m, field), m, fields \ {field})

\* _process_metadata_for_storage(metadata)
_process_metadata_for_storage(m, tz) ==
    LET texts == StoreTexts(<<>>, m, TextMetadataFields)
        withSource == IF m.source # PyNone THEN SetItem(texts, "source", m.source.value)
                      ELSE texts
        epoch == to_epoch(m.created_at, tz)
        withDate == IF TruthyDate(m.created_at)
                    THEN SetItem(withSource, "created_at", epoch.value)
                    ELSE withSource
        withSize == IF m.filesize # PyNone /\ m.filesize.value # 0
                    THEN SetItem(withDate, "filesize", m.filesize)
                    ELSE withDate
    IN  IF TruthyDate(m.created_at) /\ epoch.raised THEN [raised |-> TRUE, value |-> <<>>]
        ELSE [raised |-> FALSE, value |-> withSize]

\* datetime.fromtimestamp(n).isoformat(): the local date and time, no zone
isoformat_local(n, tz) == [kind |-> "iso", wall |-> n + tz, frac |-> 0, zone |-> ""]

\* metadata.get(field, None)
Get(stored, field, default) == IF field \in DOMAIN stored THEN stored[field] ELSE default

\* _process_metadata_from_storage(metadata)
_process_metadata_from_storage(stored, tz) ==
    [source |-> IF "source" \in DOMAIN stored THEN Source(stored["source"]) ELSE PyNone,
     source_id |-> Get(stored, "source_id", None),
     url |-> Get(stored, "url", None),
     created_at |-> IF "created_at" \in DOMAIN stored
                    THEN isoformat_local(stored["created_at"], tz)
                    ELSE NoDate,
     author |-> Get(stored, "author", None),
     document_id |-> Get(stored, "document_id", None),
     filename |-> Get(stored, "filename", None),
     filesize |-> Get(stored, "filesize", PyNone)]

\* the collection holds MaxPassages chunks
collection_count == MaxPassages

\* n_results=min(query.top_k, self._collection.count())
n_results(q) == Min(q.top_k, collection_count)

\* where=(self._where_from_query_filter(query.filter) if query.filter else {})
where_of(q, tz) ==
    IF q.filter = PyNone THEN [raised |-> FALSE, value |-> <<>>]
    ELSE _where_from_query_filter(q.filter, tz)

\* the searches of the first list comprehension of _query, up to the first
\* query whose filter raises
RECURSIVE SearchesFrom(_, _, _)
SearchesFrom(queries, k, tz) ==
    IF k > Len(queries) \/ where_of(queries[k], tz).raised THEN <<>>
    ELSE <<[query |-> k, n_results |-> n_results(queries[k]),
            where |-> where_of(queries[k], tz).value]>> \o SearchesFrom(queries, k + 1, tz)

QueryText_first(queries, k) == queries[1].query

\* QueryResult(query=query.query, ...)
QueryText(queries, k) == queries[k].query

\* _query(queries); found[k]: how many chunks the k-th search returns
_query(queries, found, tz) ==
    LET done == SearchesFrom(queries, 1, tz)
    IN  IF Len(done) < Len(queries)
        THEN [raised |-> TRUE, value |-> <<>>, searches |-> done]
        ELSE [raised |-> FALSE,
              value |-> [k \in 1..Len(queries) |->
                            [query |-> QueryText(queries, k),
                             results |-> [j \in 1..found[k] |-> Chunk(j)]]],
              searches |-> done]

\* ------------------------------------------------------------- actions
\* no second pass is modelled: the scorer is left open
NoFirstPass == [blocks |-> <<>>, replaced |-> {}]

AgainIdle ==
    /\ scoreOf = <<>>
    /\ pass = 0
    /\ firstOut = NoFirstPass

RefinerInit ==
    /\ RERANK_ENABLE \in BOOLEAN
    /\ RERANK_K \in 1..MaxWindow
    /\ RERANK_FINAL_N \in 1..MaxWindow
    /\ pc = "idle"
    /\ blocks = <<>>
    /\ i = 0
    /\ input = <<>>
    /\ calls = <<>>
    /\ replaced = {}
    /\ failedAt = 0
    /\ raised = FALSE
    /\ response = 0

Init ==
    /\ RefinerInit
    /\ AgainIdle
    /\ EmbedIdle
    /\ WorkersIdle
    /\ StoreIdle
    /\ DeviceIdle

\* query_main: datastore.query returns, _maybe_rerank is entered
DatastoreQuery ==
    /\ pc = "idle"
    /\ \E b \in Batches :
        /\ blocks' = b
        /\ input' = b
    /\ i' = 1
    /\ pc' = "rerank"
    /\ UNCHANGED <<config, calls, replaced, failedAt, raised, response>>
    /\ UNCHANGED others

\* query_main: datastore.query raises
DatastoreError ==
    /\ pc = "idle"
    /\ response' = 500
    /\ pc' = "done"
    /\ UNCHANGED <<config, blocks, i, input, calls, replaced, failedAt, raised>>
    /\ UNCHANGED others

\* _maybe_rerank: if not RERANK_ENABLE: return blocks
RerankDisabled ==
    /\ pc = "rerank"
    /\ RefinementDisabled
    /\ pc' = "respond"
    /\ UNCHANGED <<config, blocks, i, input, calls, replaced, failedAt, raised, response>>
    /\ UNCHANGED others

InLoop == pc = "rerank" /\ ~RefinementDisabled /\ i <= Len(blocks)

\* an exception inside the try: the handler of _maybe_rerank, and query_main's
\* own handler when the exception escapes
Except ==
    /\ failedAt' = i
    /\ IF TryScope = "loop"
       THEN /\ i' = i
            /\ IF OnException = "return"
               THEN /\ pc' = "respond"
                    /\ UNCHANGED <<raised, response>>
               ELSE /\ raised' = TRUE
                    /\ response' = 500
                    /\ pc' = "done"
       ELSE /\ i' = i + 1
            /\ UNCHANGED <<pc, raised, response>>

\* the iteration continues: no query text or no results
RerankSkip ==
    /\ InLoop
    /\ Skipped(blocks[i])
    /\ i' = i + 1
    /\ UNCHANGED <<config, pc, blocks, input, calls, replaced, failedAt, raised, response>>
    /\ UNCHANGED others

\* one iteration for a block with query text and results
RerankBlock ==
    /\ InLoop
    /\ ~Skipped(blocks[i])
    /\ LET qr == blocks[i]
           its == items(qr)
           texts == CandTexts(its)
       IN  \E outcome \in ScoreOutcomes(Len(texts)) :
             LET scores == rerank(user_query(qr), texts, outcome)
                 rk == ranked(its, scores.value)
             IN  /\ calls' = Append(calls, [block |-> i, query |-> user_query(qr),
                                            texts |-> texts, result |-> scores])
                 /\ IF scores.raised \/ rk.raised
                    THEN /\ Except
                         /\ UNCHANGED <<blocks, replaced>>
                    ELSE /\ blocks' = [blocks EXCEPT ![i].results = final(rk.value)]
                         /\ replaced' = replaced \cup {i}
                         /\ i' = i + 1
                         /\ UNCHANGED <<pc, failedAt, raised, response>>
    /\ UNCHANGED <<config, input>>
    /\ UNCHANGED others

\* the loop is over: return blocks
RerankReturn ==
    /\ pc = "rerank"
    /\ ~RefinementDisabled
    /\ i > Len(blocks)
    /\ pc' = "respond"
    /\ UNCHANGED <<config, blocks, i, input, calls, replaced, failedAt, raised, response>>
    /\ UNCHANGED others

\* query_main: return QueryResponse(results=results)
Respond ==
    /\ pc = "respond"
    /\ response' = 200
    /\ pc' = "done"
    /\ UNCHANGED <<config, blocks, i, input, calls, replaced, failedAt, raised>>
    /\ UNCHANGED others

\* the server takes the next request
NextRequest ==
    /\ pc = "done"
    /\ pc' = "idle"
    /\ blocks' = <<>>
    /\ i' = 0
    /\ input' = <<>>
    /\ calls' = <<>>
    /\ replaced' = {}
    /\ failedAt' = 0
    /\ raised' = FALSE
    /\ response' = 0
    /\ UNCHANGED config
    /\ UNCHANGED others

Next ==
    \/ DatastoreQuery
    \/ DatastoreError
    \/ RerankDisabled
    \/ RerankSkip
    \/ RerankBlock
    \/ RerankReturn
    \/ Respond
    \/ NextRequest

Spec == Init /\ [][Next]_vars

\* ------------------------------------------- refining a refined batch again
\* _maybe_rerank applied to what _maybe_rerank returned, the reranker being
\* deterministic: compute_score scores each [query, passage] pair by itself
\* (rerank.py:57-58), so a passage text always gets the same score.
PassageTexts == {Chunk(n).text : n \in 1..MaxPassages}

DeterministicScores(texts) ==
    [raised |-> FALSE, value |-> [j \in 1..Len(texts) |-> scoreOf[texts[j]]]]

InitAgain ==
    /\ RefinerInit
    /\ scoreOf \in [PassageTexts -> 0..MaxScore]
    /\ pass = 0
    /\ firstOut = NoFirstPass
    /\ EmbedIdle
    /\ WorkersIdle
    /\ StoreIdle
    /\ DeviceIdle

\* datastore.query returns the result of one query
QueryOne ==
    /\ DatastoreQuery
    /\ Len(blocks') = 1

\* one iteration, the scores being the ones the model gives these texts
RerankBlockDeterministic ==
    /\ RerankBlock
    /\ LET c == calls'[Len(calls')]
       IN  c.result = rerank(c.query, c.texts, DeterministicScores(c.texts))

\* the returned blocks are passed to _maybe_rerank once more
RefineAgain ==
    /\ pc = "respond"
    /\ pass = 0
    /\ pass' = 1
    /\ firstOut' = [blocks |-> blocks, replaced |-> replaced]
    /\ input' = blocks
    /\ i' = 1
    /\ calls' = <<>>
    /\ replaced' = {}
    /\ failedAt' = 0
    /\ pc' = "rerank"
    /\ UNCHANGED <<config, blocks, raised, response, scoreOf, embedVars, workerVars, storeVars, deviceVars>>

NextBatch ==
    /\ pc = "done"
    /\ pc' = "idle"
    /\ blocks' = <<>>
    /\ i' = 0
    /\ input' = <<>>
    /\ calls' = <<>>
    /\ replaced' = {}
    /\ failedAt' = 0
    /\ raised' = FALSE
    /\ response' = 0
    /\ pass' = 0
    /\ firstOut' = NoFirstPass
    /\ UNCHANGED <<config, scoreOf, embedVars, workerVars, storeVars, deviceVars>>

NextAgain ==
    \/ QueryOne
    \/ RerankDisabled
    \/ RerankSkip
    \/ RerankBlockDeterministic
    \/ RerankReturn
    \/ RefineAgain
    \/ Respond
    \/ NextBatch

SpecAgain == InitAgain /\ [][NextAgain]_vars

\* ------------------------------------------------ the query cache at work
\* the refiner at rest, configured by its defaults
RefinerIdle ==
    /\ RERANK_ENABLE = TRUE
    /\ RERANK_K = 5
    /\ RERANK_FINAL_N = 3
    /\ pc = "idle"
    /\ blocks = <<>>
    /\ i = 0
    /\ input = <<>>
    /\ calls = <<>>
    /\ replaced = {}
    /\ failedAt = 0
    /\ raised = FALSE
    /\ response = 0

InitCache ==
    /\ RefinerIdle
    /\ AgainIdle
    /\ WorkersIdle
    /\ StoreIdle
    /\ DeviceIdle
    /\ CACHE_SIZE \in 0..MaxCache
    /\ DEFAULT_BATCH = 64
    /\ _model = NoModel
    /\ _R = NoModel
    /\ cache = <<>>
    /\ held = NoHeld
    /\ last = NoCall
    /\ prev = Before(NoCall)
    /\ useOrder = <<>>
    /\ loadFailed = FALSE

\* the texts embedded with success, each once, the latest last
Used(order, text) ==
    LET Other(t) == t # text
    IN  Append(SelectSeq(order, Other), text)

\* what the constructor can do in a call that reaches it
LoadOutcomes(m) == IF m = NoModel THEN BOOLEAN ELSE {TRUE}

\* what the wrapper of lru_cache does with a call: the cached value on a hit,
\* the function's result on a miss
Lookup(text) ==
    IF InCache(cache, CacheKey(text))
    THEN {[raised |-> FALSE, value |-> lru_value(cache, CacheKey(text)), model |-> _model,
           loads |-> 0, encoded |-> <<>>]}
    ELSE {cached_embed_query_body(text, _model, loadOk, runs) :
            loadOk \in LoadOutcomes(_model), runs \in EncodeRuns(<<text>>)}

\* embed_query(text)
embed_query ==
    \E text \in Texts :
      \E r \in Lookup(text) :
        LET key == CacheKey(text)
            hit == InCache(cache, key)
        IN  /\ cache' = IF hit THEN lru_hit(cache, key) ELSE lru_miss(cache, key, r)
            /\ _model' = r.model
            /\ held' = IF r.raised THEN NoHeld ELSE Handout(key, r.value)
            /\ last' = [op |-> "embed_query", arg |-> text, raised |-> r.raised, hit |-> hit,
                        ret |-> IF r.raised THEN NoVec ELSE held'.obj,
                        loads |-> r.loads, encoded |-> r.encoded,
                        again |-> \E j \in 1..Len(useOrder) : useOrder[j] = text]
            /\ prev' = Before(last)
            /\ useOrder' = IF r.raised THEN useOrder ELSE Used(useOrder, text)
            /\ loadFailed' = (loadFailed \/ (r.raised /\ r.loads = 1))
            /\ UNCHANGED <<CACHE_SIZE, DEFAULT_BATCH, _R>>
            /\ UNCHANGED <<refinerVars, againVars, workerVars, storeVars, deviceVars>>

Poison == 9

\* the caller writes into the list it was handed; whatever else refers to the
\* same object sees the write
CallerMutates ==
    /\ held # NoHeld
    /\ ~held.mutated
    /\ held' = [held EXCEPT !.obj.v[1] = Poison, !.mutated = TRUE]
    /\ cache' = [j \in 1..Len(cache) |->
                    IF cache[j].key = held.alias
                    THEN [cache[j] EXCEPT !.value.v[1] = Poison]
                    ELSE cache[j]]
    /\ UNCHANGED <<CACHE_SIZE, DEFAULT_BATCH, _model, _R, last, prev, useOrder, loadFailed>>
    /\ UNCHANGED <<refinerVars, againVars, workerVars, storeVars, deviceVars>>

NextCache ==
    \/ embed_query
    \/ CallerMutates

SpecCache == InitCache /\ [][NextCache]_vars

\* ------------------------------------------- callers inside the lazy loaders
\* _load_model (bge.py) and _get (rerank.py) have the same shape: read the
\* global, return it if it is set, else construct a model, assign it to the
\* global and return it.  No lock is taken: a caller is a thread that can be
\* preempted between the read and the assignment (the constructor reads the
\* weights from disk).  built counts the constructor calls that returned; the
\* handle of the n-th model built is n.
InitLoad ==
    /\ RefinerIdle
    /\ AgainIdle
    /\ EmbedIdle
    /\ WorkersIdle
    /\ StoreIdle
    /\ DeviceIdle

Global(kind) == IF kind = "bge" THEN _model ELSE _R

\* a caller enters _load_model / _get
Enter(w) ==
    /\ wpc[w].at = "idle"
    /\ \E kind \in Kinds : wpc' = [wpc EXCEPT ![w] = [at |-> "check", kind |-> kind, got |-> NoModel]]
    /\ UNCHANGED <<built, embedVars>>
    /\ UNCHANGED <<refinerVars, againVars, storeVars, deviceVars>>

\* if _model is not None: return _model
Check(w) ==
    /\ wpc[w].at = "check"
    /\ wpc' = [wpc EXCEPT ![w] =
                  IF Global(wpc[w].kind) # NoModel
                  THEN [at |-> "return", kind |-> wpc[w].kind, got |-> Global(wpc[w].kind)]
                  ELSE [at |-> "construct", kind |-> wpc[w].kind, got |-> NoModel]]
    /\ UNCHANGED <<built, embedVars>>
    /\ UNCHANGED <<refinerVars, againVars, storeVars, deviceVars>>

\* _model = BGEM3FlagModel(...) / _R = FlagReranker(...): the constructor
\* returns and the global is assigned, or it raises and the global stays None
Construct(w) ==
    /\ wpc[w].at = "construct"
    /\ \E ok \in BOOLEAN :
        LET kind == wpc[w].kind
            handle == built[kind] + 1
        IN  IF ok
            THEN /\ built' = [built EXCEPT ![kind] = handle]
                 /\ _model' = IF kind = "bge" THEN handle ELSE _model
                 /\ _R' = IF kind = "rerank" THEN handle ELSE _R
                 /\ loadFailed' = loadFailed
                 /\ wpc' = [wpc EXCEPT ![w] = [at |-> "return", kind |-> kind, got |-> handle]]
            ELSE /\ loadFailed' = TRUE
                 /\ wpc' = [wpc EXCEPT ![w] = Outside]
                 /\ UNCHANGED <<built, _model, _R>>
    /\ UNCHANGED <<CACHE_SIZE, DEFAULT_BATCH, cache, held, last, prev, useOrder>>
    /\ UNCHANGED <<refinerVars, againVars, storeVars, deviceVars>>

\* return _model / return _R
Return(w) ==
    /\ wpc[w].at = "return"
    /\ wpc' = [wpc EXCEPT ![w] = Outside]
    /\ UNCHANGED <<built, embedVars>>
    /\ UNCHANGED <<refinerVars, againVars, storeVars, deviceVars>>

NextLoad ==
    \E w \in Workers :
        \/ Enter(w)
        \/ Check(w)
        \/ Construct(w)
        \/ Return(w)

SpecLoad == InitLoad /\ [][NextLoad]_vars

\* --------------------------------------------- concurrent embed_query calls
\* Callers are threads.  The wrapper lru_cache puts around _cached_embed_query
\* looks the key up and moves a hit to the recent end in one step that no
\* other thread interrupts; on a miss it calls the function with no lock held
\* (other callers run meanwhile, also for the same text) and then, again in
\* one step, stores the result unless the key is there by now.  The function
\* body (the model loaded if need be, then one encode) is one step here: the
\* unguarded loader is the subject of SpecLoad.
InitShared ==
    /\ RefinerIdle
    /\ AgainIdle
    /\ WorkersIdle
    /\ StoreIdle
    /\ DeviceIdle
    /\ CACHE_SIZE \in 0..MaxCache
    /\ DEFAULT_BATCH = 64
    /\ _model = NoModel
    /\ _R = NoModel
    /\ cache = <<>>
    /\ held = NoHeld
    /\ last = NoCall
    /\ prev = Before(NoCall)
    /\ useOrder = <<>>
    /\ loadFailed = FALSE

\* what one encode of <<text>> can do: raise, or give the row of the text
RunsOfOne(text) ==
    {runs \in EncodeRuns(<<text>>) : runs[1].raised \/ runs[1].vecs[1].v = RowOf(text)}

\* embed_query(text) up to the wrapper's lookup
CallLookup(w) ==
    /\ wpc[w].at = "idle"
    /\ \E text \in Texts :
        LET key == CacheKey(text)
        IN  IF InCache(cache, key)
            THEN /\ cache' = lru_hit(cache, key)
                 /\ wpc' = [wpc EXCEPT ![w] = [at |-> "returned", text |-> text, hit |-> TRUE,
                                               val |-> PyList(lru_value(cache, key))]]
            ELSE /\ cache' = cache
                 /\ wpc' = [wpc EXCEPT ![w] = [at |-> "body", text |-> text, hit |-> FALSE,
                                               val |-> NoVec]]
    /\ UNCHANGED <<CACHE_SIZE, DEFAULT_BATCH, _model, _R, held, last, prev, useOrder, loadFailed>>
    /\ UNCHANGED <<built, refinerVars, againVars, storeVars, deviceVars>>

\* the body of _cached_embed_query runs; an exception leaves embed_query
CallBody(w) ==
    /\ wpc[w].at = "body"
    /\ \E loadOk \in LoadOutcomes(_model) :
        \E runs \in RunsOfOne(wpc[w].text) :
          LET r == cached_embed_query_body(wpc[w].text, _model, loadOk, runs)
          IN  /\ _model' = r.model
              /\ loadFailed' = (loadFailed \/ (r.raised /\ r.loads = 1))
              /\ wpc' = [wpc EXCEPT ![w] =
                            IF r.raised THEN Outside
                            ELSE [at |-> "store", text |-> wpc[w].text, hit |-> FALSE,
                                  val |-> r.value]]
    /\ UNCHANGED <<CACHE_SIZE, DEFAULT_BATCH, _R, cache, held, last, prev, useOrder>>
    /\ UNCHANGED <<built, refinerVars, againVars, storeVars, deviceVars>>

\* the wrapper stores the result; embed_query returns list(cached_tuple)
CallStore(w) ==
    /\ wpc[w].at = "store"
    /\ cache' = lru_store(cache, CacheKey(wpc[w].text), wpc[w].val)
    /\ wpc' = [wpc EXCEPT ![w] = [at |-> "returned", text |-> wpc[w].text, hit |-> FALSE,
                                  val |-> PyList(wpc[w].val)]]
    /\ UNCHANGED <<CACHE_SIZE, DEFAULT_BATCH, _model, _R, held, last, prev, useOrder, loadFailed>>
    /\ UNCHANGED <<built, refinerVars, againVars, storeVars, deviceVars>>

\* the caller goes on with the list it got
CallOver(w) ==
    /\ wpc[w].at = "returned"
    /\ wpc' = [wpc EXCEPT ![w] = Outside]
    /\ UNCHANGED <<built, embedVars>>
    /\ UNCHANGED <<refinerVars, againVars, storeVars, deviceVars>>

NextShared ==
    \E w \in Workers :
        \/ CallLookup(w)
        \/ CallBody(w)
        \/ CallStore(w)
        \/ CallOver(w)

SpecShared == InitShared /\ [][NextShared]_vars

\* ---------------------------------------- the devices and the two loaders
\* The modules are imported on some host; each model is then built by the
\* first call that needs it.
InitDevice ==
    /\ RefinerIdle
    /\ AgainIdle
    /\ EmbedIdle
    /\ WorkersIdle
    /\ StoreIdle
    /\ host \in Hosts
    /\ DEFAULT_DEVICE = _detect_device(host)
    /\ _DEVICE = _detect_rerank_device(host)
    /\ events = <<>>

ConstructorCalled(name) == \E k \in 1..Len(events) : events[k].op = name

\* _load_model() with _model None: the constructor is called (a later call
\* after a failure repeats the same constructor call)
LoadVectorizer ==
    /\ _model = NoModel
    /\ ~ConstructorCalled("BGEM3FlagModel")
    /\ \E ok \in BOOLEAN :
        LET l == _load_model(_model, ok)
        IN  /\ _model' = l.model
            /\ loadFailed' = (loadFailed \/ l.raised)
    /\ events' = Append(events, Constructor("BGEM3FlagModel", DEFAULT_DEVICE,
                                             bge_use_fp16(DEFAULT_DEVICE, host)))
    /\ UNCHANGED <<CACHE_SIZE, DEFAULT_BATCH, _R, cache, held, last, prev, useOrder>>
    /\ UNCHANGED <<DEFAULT_DEVICE, _DEVICE, host>>
    /\ UNCHANGED <<refinerVars, againVars, workerVars, storeVars>>

\* _get() with _R None
LoadScorer ==
    /\ _R = NoModel
    /\ ~ConstructorCalled("FlagReranker")
    /\ \E ok \in BOOLEAN :
        LET g == _get(_R, ok)
        IN  /\ _R' = g.model
            /\ loadFailed' = (loadFailed \/ g.raised)
    /\ events' = Append(events, Constructor("FlagReranker", _DEVICE, rerank_use_fp16(_DEVICE)))
    /\ UNCHANGED <<CACHE_SIZE, DEFAULT_BATCH, _model, cache, held, last, prev, useOrder>>
    /\ UNCHANGED <<DEFAULT_DEVICE, _DEVICE, host>>
    /\ UNCHANGED <<refinerVars, againVars, workerVars, storeVars>>

NextDevice ==
    \/ LoadVectorizer
    \/ LoadScorer

SpecDevice == InitDevice /\ [][NextDevice]_vars

\* ------------------------------------- embed_documents and rerank, directly
InitBatch ==
    /\ RefinerIdle
    /\ AgainIdle
    /\ WorkersIdle
    /\ StoreIdle
    /\ DeviceIdle
    /\ CACHE_SIZE = 2000
    /\ DEFAULT_BATCH \in 1..MaxBatch
    /\ _model = NoModel
    /\ _R = NoModel
    /\ cache = <<>>
    /\ held = NoHeld
    /\ last = NoCall
    /\ prev = Before(NoCall)
    /\ useOrder = <<>>
    /\ loadFailed = FALSE

\* embed_documents(texts)
embed_documents ==
    /\ last = NoCall
    /\ \E texts \in TextLists, loadOk \in LoadOutcomes(_model) :
        \E runs \in EncodeRuns(texts) :
          LET r == _encode(texts, _model, loadOk, runs)
          IN  /\ _model' = r.model
              /\ last' = [op |-> "embed_documents", arg |-> texts, raised |-> r.raised,
                          hit |-> FALSE, ret |-> IF r.raised THEN <<>> ELSE r.value,
                          loads |-> r.loads, encoded |-> r.encoded, again |-> FALSE]
              /\ loadFailed' = (loadFailed \/ (r.raised /\ r.loads = 1))
    /\ UNCHANGED <<CACHE_SIZE, DEFAULT_BATCH, _R, cache, held, prev, useOrder>>
    /\ UNCHANGED <<refinerVars, againVars, workerVars, storeVars, deviceVars>>

\* the passages a caller hands to rerank
PassageLists == {[j \in 1..n |-> Chunk(j).text] : n \in 0..MaxPassages}

\* rerank(query, passages), called directly
rerank_call ==
    /\ last = NoCall
    /\ \E query \in Queries, passages \in PassageLists, loadOk \in LoadOutcomes(_R) :
        \E outcome \in ScoreOutcomes(Len(passages)) :
          LET r == rerank_get(query, passages, _R, loadOk, outcome)
          IN  /\ _R' = r.model
              /\ last' = [op |-> "rerank", arg |-> [query |-> query, passages |-> passages],
                          raised |-> r.raised, hit |-> FALSE,
                          ret |-> IF r.raised THEN <<>> ELSE r.value,
                          loads |-> r.loads, encoded |-> r.scored, again |-> FALSE]
              /\ loadFailed' = (loadFailed \/ (r.raised /\ r.loads = 1))
    /\ UNCHANGED <<CACHE_SIZE, DEFAULT_BATCH, _model, cache, held, prev, useOrder>>
    /\ UNCHANGED <<refinerVars, againVars, workerVars, storeVars, deviceVars>>

\* the caller has what the call gave it and goes on
CallerGoesOn ==
    /\ last # NoCall
    /\ last' = NoCall
    /\ UNCHANGED <<CACHE_SIZE, DEFAULT_BATCH, _model, _R, cache, held, prev, useOrder, loadFailed>>
    /\ UNCHANGED <<refinerVars, againVars, workerVars, storeVars, deviceVars>>

NextBatchCalls ==
    \/ embed_documents
    \/ rerank_call
    \/ CallerGoesOn

SpecBatch == InitBatch /\ [][NextBatchCalls]_vars

\* --------------------------------------- what a call does with the device
\* events lists, in order, what one call of embed_documents or rerank makes
\* the device do: the warmup of a model that is built in the call, each
\* m.encode / compute_score, each empty_cache.
Reclaim_mps_only(device, k, ok) ==
    IF device = "mps"
    THEN <<[op |-> "torch.mps.empty_cache", batch |-> k, raised |-> ~ok, escapes |-> FALSE]>>
    ELSE <<>>

\* the step after a batch: torch.mps.empty_cache() inside try/except on
\* "mps", torch.cuda.empty_cache() on a cuda device, nothing otherwise;
\* ok: whether empty_cache returns
Reclaim(device, k, ok) ==
    IF device = "mps"
    THEN <<[op |-> "torch.mps.empty_cache", batch |-> k, raised |-> ~ok, escapes |-> FALSE]>>
    ELSE IF startswith_cuda(device)
    THEN <<[op |-> "torch.cuda.empty_cache", batch |-> k, raised |-> ~ok, escapes |-> ~ok]>>
    ELSE <<>>

Escapes(trace) == trace # <<>> /\ trace[Len(trace)].escapes

\* the warmup call of a model built in this call
Warmup(loads, loadRaised) ==
    IF loads = 1 /\ ~loadRaised
    THEN <<[op |-> "warmup", batch |-> 0, raised |-> FALSE, escapes |-> FALSE]>>
    ELSE <<>>

RECURSIVE BatchTrace(_, _, _, _)
\* the loop of _encode from batch k on; failAt: the batch whose empty_cache
\* raises (0: none does)
BatchTrace(runs, k, device, failAt) ==
    IF k > Len(runs) THEN <<>>
    ELSE IF runs[k].raised
    THEN <<[op |-> "encode", batch |-> k, raised |-> TRUE, escapes |-> TRUE]>>
    ELSE LET step == <<[op |-> "encode", batch |-> k, raised |-> FALSE, escapes |-> FALSE]>>
                     \o Reclaim(device, k, k # failAt)
         IN  IF Escapes(step) THEN step
             ELSE step \o BatchTrace(runs, k + 1, device, failAt)

\* _encode(texts) on a device: the result of _encode, and an exception of
\* torch.cuda.empty_cache() ends the call
_encode_on(texts, m, loadOk, runs, device, failAt) ==
    LET e == _encode(texts, m, loadOk, runs)
        trace == IF Empty(texts) \/ (e.raised /\ e.encoded = <<>>) THEN <<>>
                 ELSE BatchTrace(runs, 1, device, failAt)
        done == Cardinality({k \in 1..Len(trace) : trace[k].op = "encode"})
    IN  [raised |-> e.raised \/ Escapes(trace),
         value |-> IF e.raised \/ Escapes(trace) THEN <<>> ELSE e.value,
         model |-> e.model,
         loads |-> e.loads,
         encoded |-> SubSeq(e.encoded, 1, done),
         events |-> Warmup(e.loads, e.model = NoModel) \o trace]

\* rerank(query, passages) on a device
rerank_on(query, passages, r, loadOk, outcome, device, ok) ==
    LET g == rerank_get(query, passages, r, loadOk, outcome)
        trace == IF g.scored = <<>> THEN <<>>
                 ELSE IF g.raised
                 THEN <<[op |-> "compute_score", batch |-> 1, raised |-> TRUE, escapes |-> TRUE]>>
                 ELSE <<[op |-> "compute_score", batch |-> 1, raised |-> FALSE, escapes |-> FALSE]>>
                      \o Reclaim(device, 1, ok)
    IN  [raised |-> g.raised \/ Escapes(trace),
         value |-> IF g.raised \/ Escapes(trace) THEN <<>> ELSE g.value,
         model |-> g.model,
         loads |-> g.loads,
         scored |-> g.scored,
         events |-> Warmup(g.loads, g.model = NoModel) \o trace]

\* hosts without settings: an Apple Silicon machine with MPS, a Linux
\* machine with or without CUDA
PlainHosts ==
    {h \in Hosts :
        /\ h.EMBEDDING_DEVICE = NoEnv /\ h.RERANK_DEVICE = NoEnv /\ h.EMBEDDING_FP16 = NoEnv
        /\ \/ h.system = "Darwin" /\ h.machine = "arm64" /\ h.mps /\ ~h.cuda
           \/ h.system = "Linux" /\ h.machine = "x86_64" /\ ~h.mps}

InitReclaim ==
    /\ RefinerIdle
    /\ AgainIdle
    /\ WorkersIdle
    /\ StoreIdle
    /\ host \in PlainHosts
    /\ DEFAULT_DEVICE = _detect_device(host)
    /\ _DEVICE = _detect_rerank_device(host)
    /\ events = <<>>
    /\ CACHE_SIZE = 2000
    /\ DEFAULT_BATCH \in 1..MaxBatch
    /\ _model = NoModel
    /\ _R = NoModel
    /\ cache = <<>>
    /\ held = NoHeld
    /\ last = NoCall
    /\ prev = Before(NoCall)
    /\ useOrder = <<>>
    /\ loadFailed = FALSE

\* m.encode(chunk, ...) returns: the row of each text of the chunk
Encoded(chunk) ==
    [raised |-> FALSE, vecs |-> [j \in 1..Len(chunk) |-> [of |-> chunk[j], v |-> RowOf(chunk[j])]]]

RECURSIVE RunsOfFrom(_, _)
\* the runs of the loop of _encode with the rows the model gives the texts:
\* each encode returns or raises, up to the first that raises
RunsOfFrom(texts, k) ==
    IF k > NumChunks(texts) THEN {<<>>}
    ELSE {<<[raised |-> TRUE, vecs |-> <<>>]>>} \cup
         {<<Encoded(ChunkAt(texts, k))>> \o rest : rest \in RunsOfFrom(texts, k + 1)}

RunsOf(texts) == RunsOfFrom(texts, 1)

\* embed_documents(texts) on DEFAULT_DEVICE
EmbedMany ==
    /\ last = NoCall
    /\ \E texts \in TextLists, loadOk \in LoadOutcomes(_model) :
        \E runs \in RunsOf(texts), failAt \in 0..NumChunks(texts) :
          LET r == _encode_on(texts, _model, loadOk, runs, DEFAULT_DEVICE, failAt)
          IN  /\ _model' = r.model
              /\ last' = [op |-> "embed_documents", arg |-> texts, raised |-> r.raised,
                          hit |-> FALSE, ret |-> r.value,
                          loads |-> r.loads, encoded |-> r.encoded, again |-> FALSE]
              /\ loadFailed' = (loadFailed \/ (r.raised /\ r.loads = 1 /\ r.model = NoModel))
              /\ events' = r.events
    /\ UNCHANGED <<CACHE_SIZE, DEFAULT_BATCH, _R, cache, held, prev, useOrder>>
    /\ UNCHANGED <<DEFAULT_DEVICE, _DEVICE, host>>
    /\ UNCHANGED <<refinerVars, againVars, workerVars, storeVars>>

\* rerank(query, passages) on _DEVICE
Score ==
    /\ last = NoCall
    /\ \E query \in Queries, passages \in PassageLists, loadOk \in LoadOutcomes(_R) :
        \E outcome \in ScoreOutcomes(Len(passages)), ok \in BOOLEAN :
          LET r == rerank_on(query, passages, _R, loadOk, outcome, _DEVICE, ok)
          IN  /\ _R' = r.model
              /\ last' = [op |-> "rerank", arg |-> [query |-> query, passages |-> passages],
                          raised |-> r.raised, hit |-> FALSE, ret |-> r.value,
                          loads |-> r.loads, encoded |-> r.scored, again |-> FALSE]
              /\ loadFailed' = (loadFailed \/ (r.raised /\ r.loads = 1 /\ r.model = NoModel))
              /\ events' = r.events
    /\ UNCHANGED <<CACHE_SIZE, DEFAULT_BATCH, _model, cache, held, prev, useOrder>>
    /\ UNCHANGED <<DEFAULT_DEVICE, _DEVICE, host>>
    /\ UNCHANGED <<refinerVars, againVars, workerVars, storeVars>>

\* the caller has what the call gave it and goes on
DeviceCallOver ==
    /\ last # NoCall
    /\ last' = NoCall
    /\ events' = <<>>
    /\ UNCHANGED <<CACHE_SIZE, DEFAULT_BATCH, _model, _R, cache, held, prev, useOrder, loadFailed>>
    /\ UNCHANGED <<DEFAULT_DEVICE, _DEVICE, host>>
    /\ UNCHANGED <<refinerVars, againVars, workerVars, storeVars>>

NextReclaim ==
    \/ EmbedMany
    \/ Score
    \/ DeviceCallOver

SpecReclaim == InitReclaim /\ [][NextReclaim]_vars

\* --------------------------------------- the filter and metadata functions
\* what a caller can put into a DocumentMetadataFilter
DateTexts == {NoDate, EmptyText, Garbage} \cup IsoTexts

Sources == {PyNone} \cup {Source(v) : v \in SourceValues}

Filters == [document_id : {None, "", "d"}, source_id : {None, "s"}, author : {None, "", "a"},
            source : Sources, start_date : DateTexts, end_date : DateTexts]

InitFilter ==
    /\ RefinerIdle
    /\ AgainIdle
    /\ EmbedIdle
    /\ WorkersIdle
    /\ DeviceIdle
    /\ TZ \in LocalZones
    /\ request = <<>>
    /\ searches = <<>>
    /\ pure = NoPure

\* _where_from_query_filter is applied to a filter
Translate ==
    /\ pure = NoPure
    /\ \E f \in Filters :
        LET r == _where_from_query_filter(f, TZ)
        IN  pure' = [op |-> "where", arg |-> f, raised |-> r.raised, out |-> r.value]
    /\ UNCHANGED <<TZ, request, searches>>
    /\ UNCHANGED <<refinerVars, againVars, embedVars, workerVars, deviceVars>>

\* what a DocumentChunkMetadata can hold
Metadatas == [source : Sources, source_id : {None, "", "s"}, url : {None, "u"},
              created_at : DateTexts, author : {None, "", "a"}, document_id : {None, "d"},
              filename : {None, "f"}, filesize : {PyNone, PyInt(0), PyInt(1024)}]

\* a chunk's metadata is stored (_upsert) and read back (_query)
RoundTrip ==
    /\ pure = NoPure
    /\ \E m \in Metadatas :
        LET st == _process_metadata_for_storage(m, TZ)
        IN  pure' = [op |-> "roundtrip", arg |-> m, raised |-> st.raised,
                     out |-> IF st.raised THEN <<>>
                             ELSE _process_metadata_from_storage(st.value, TZ)]
    /\ UNCHANGED <<TZ, request, searches>>
    /\ UNCHANGED <<refinerVars, againVars, embedVars, workerVars, deviceVars>>

\* the caller has the result and goes on
PureDone ==
    /\ pure # NoPure
    /\ pure' = NoPure
    /\ UNCHANGED <<TZ, request, searches>>
    /\ UNCHANGED <<refinerVars, againVars, embedVars, workerVars, deviceVars>>

NextFilter ==
    \/ Translate
    \/ RoundTrip
    \/ PureDone

SpecFilter == InitFilter /\ [][NextFilter]_vars

\* ------------------------------------------------ the /query request, whole
\* the filters a query of the request can carry
StartingAt(d) ==
    [document_id |-> None, source_id |-> None, author |-> None, source |-> PyNone,
     start_date |-> d, end_date |-> NoDate]

QueryFilters == {PyNone, StartingAt(Garbage),
                 StartingAt([kind |-> "iso", wall |-> Jan2024, frac |-> 0, zone |-> "Z"])}

\* top_k below and above the size of the collection
Requested == [query : Queries, top_k : {1, MaxPassages + 1}, filter : QueryFilters]

Requests == SeqsUpTo(Requested, MaxBlocks)

\* what the searches of a request can return: nothing, or as many chunks as
\* were asked for
Found(queries) == [1..Len(queries) -> {0, 1, MaxPassages}]

InitQuery ==
    /\ RERANK_ENABLE \in BOOLEAN
    /\ RERANK_K = 5
    /\ RERANK_FINAL_N = 3
    /\ pc = "idle"
    /\ blocks = <<>>
    /\ i = 0
    /\ input = <<>>
    /\ calls = <<>>
    /\ replaced = {}
    /\ failedAt = 0
    /\ raised = FALSE
    /\ response = 0
    /\ AgainIdle
    /\ EmbedIdle
    /\ WorkersIdle
    /\ StoreIdle
    /\ DeviceIdle

\* query_main: datastore.query(request.queries) runs _query; its exception is
\* caught by query_main, which answers 500 "Internal Service Error"
ChromaQuery ==
    /\ pc = "idle"
    /\ \E queries \in Requests :
        \E found \in Found(queries) :
          LET r == _query(queries, found, TZ)
          IN  /\ \A k \in 1..Len(queries) : found[k] <= n_results(queries[k])
              /\ request' = queries
              /\ searches' = r.searches
              /\ IF r.raised
                 THEN /\ response' = 500
                      /\ pc' = "done"
                      /\ UNCHANGED <<blocks, i, input>>
                 ELSE /\ blocks' = r.value
                      /\ input' = r.value
                      /\ i' = 1
                      /\ pc' = "rerank"
                      /\ UNCHANGED response
    /\ UNCHANGED <<config, calls, replaced, failedAt, raised>>
    /\ UNCHANGED <<TZ, pure>>
    /\ UNCHANGED <<againVars, embedVars, workerVars, deviceVars>>

\* the response is sent and the request is gone; the server takes the next
RequestOver ==
    /\ pc = "done"
    /\ pc' = "idle"
    /\ blocks' = <<>>
    /\ i' = 0
    /\ input' = <<>>
    /\ calls' = <<>>
    /\ replaced' = {}
    /\ failedAt' = 0
    /\ raised' = FALSE
    /\ response' = 0
    /\ request' = <<>>
    /\ searches' = <<>>
    /\ UNCHANGED config
    /\ UNCHANGED <<TZ, pure>>
    /\ UNCHANGED <<againVars, embedVars, workerVars, deviceVars>>

NextQuery ==
    \/ ChromaQuery
    \/ RerankDisabled
    \/ RerankSkip
    \/ RerankBlock
    \/ RerankReturn
    \/ Respond
    \/ RequestOver

SpecQuery == InitQuery /\ [][NextQuery]_vars

\* ------------------------------------------------- vocabulary of the claims
\* _maybe_rerank has returned (or raised) for the current request
RefineOver == pc \in {"respond", "done"}

Indices == 1..Len(input)

\* the RankedResult has query text and at least one passage
Eligible(j) == input[j].query # "" /\ Len(input[j].results) >= 1

CallsFor(j) == {c \in 1..Len(calls) : calls[c].block = j}

ScoredOk(j) == \E c \in CallsFor(j) : ~calls[c].result.raised

ScorerRaised(j) == \E c \in CallsFor(j) : calls[c].result.raised

ScoresOf(j) == calls[CHOOSE c \in CallsFor(j) : ~calls[c].result.raised].result.value

\* the candidate window of the j-th result, from the configuration
WindowOf(j) == Min(RERANK_K, Len(input[j].results))

CandidatesOf(j) == SubSeq(input[j].results, 1, WindowOf(j))

IsCandidate(j, p) == \E b \in 1..WindowOf(j) : input[j].results[b] = p

\* the score the scorer returned for candidate p of the j-th result
ScoreOfPassage(j, p) ==
    ScoresOf(j)[CHOOSE b \in 1..WindowOf(j) : input[j].results[b] = p]

ScoreKey(p) == PyFloat(p[2])

\* the refinement the design describes: the candidates in stable descending
\* score order, cut to the final window (at least one)
ExpectedRefined(j) ==
    LET pairs == zip(CandidatesOf(j), ScoresOf(j))
        s == sorted_reverse(pairs, [a \in 1..Len(pairs) |-> ScoreKey(pairs[a])]).value
        byScore == [a \in 1..Len(s) |-> s[a][1]]
    IN  SubSeq(byScore, 1, Max(1, Min(RERANK_FINAL_N, Len(byScore))))

Refined(j) == ScoredOk(j) /\ blocks[j].results = ExpectedRefined(j)

\* ------------------------------------------------------------------ claims

\* C1: with refinement enabled, a result with query text, at least two
\* candidates and a successful scorer call comes out holding candidates only,
\* with non-increasing scores along the list.
C1_OrderedByScore ==
    (RefineOver /\ RERANK_ENABLE) =>
        \A j \in Indices :
            (Eligible(j) /\ WindowOf(j) >= 2 /\ ScoredOk(j)) =>
                LET out == blocks[j].results
                IN  /\ \A a \in 1..Len(out) : IsCandidate(j, out[a])
                    /\ \A a, b \in 1..Len(out) :
                          a < b => ScoreOfPassage(j, out[a]) >= ScoreOfPassage(j, out[b])

\* C2: an error while refining one result of a batch does not abort the
\* refinement of the others: every other result with query text and passages,
\* before or after the failing one, ends up re-scored, reordered and truncated.
C2_ErrorDoesNotAbortOthers ==
    (RefineOver /\ failedAt # 0) =>
        \A k \in Indices : (k # failedAt /\ Eligible(k)) => Refined(k)

\* C3: refine does not mutate its input: after it returns, every result object
\* passed in still holds the passage list it held before the call.
C3_InputNotMutated ==
    RefineOver => \A j \in Indices : blocks[j].results = input[j].results

\* C4: with refinement enabled and a successful scorer call, a result with
\* query text and n >= 1 passages comes out with exactly
\* max(1, min(finalWindow, min(candidateWindow, n))) passages.
C4_OutputLength ==
    (RefineOver /\ RERANK_ENABLE) =>
        \A j \in Indices :
            (Eligible(j) /\ ScoredOk(j)) =>
                Len(blocks[j].results) = Max(1, Min(RERANK_FINAL_N, WindowOf(j)))

\* C5: stability: when the scorer returns the same score for every candidate,
\* the output is the first min(finalWindow, K) input passages in input order.
C5_StableOnEqualScores ==
    (RefineOver /\ RERANK_ENABLE) =>
        \A j \in Indices :
            (/\ Eligible(j)
             /\ ScoredOk(j)
             /\ \A a, b \in 1..Len(ScoresOf(j)) : ScoresOf(j)[a] = ScoresOf(j)[b]) =>
                blocks[j].results =
                    SubSeq(input[j].results, 1, Min(RERANK_FINAL_N, WindowOf(j)))

\* C6: during one refine call the scorer is invoked exactly once for each
\* result with query text and at least one passage, with that result's query
\* text and the texts of its first K passages in order, and never twice.
C6_ScoredExactlyOnce ==
    (RefineOver /\ RERANK_ENABLE) =>
        \A j \in Indices :
            Eligible(j) =>
                /\ Cardinality(CallsFor(j)) = 1
                /\ \A c \in CallsFor(j) :
                      /\ calls[c].query = input[j].query
                      /\ calls[c].texts =
                            [a \in 1..WindowOf(j) |-> input[j].results[a].text]

\* C7: a scoring failure is fail-open: when the scorer raises for a result,
\* refine does not raise, that result keeps its input passages in input order,
\* and the query request completes with a result, not an error.
C7_ScoringFailureFailsOpen ==
    \A j \in Indices :
        ScorerRaised(j) =>
            /\ ~raised
            /\ blocks[j] = input[j]
            /\ response # 500
            /\ pc = "done" => response = 200

C7_Witness ==
    /\ pc = "done"
    /\ response = 200
    /\ \E j \in Indices : ScorerRaised(j) /\ Len(input[j].results) >= 2

\* C8: with refinement disabled, refine returns its input unchanged (same
\* results, same passages, same order) and the scorer is never invoked.
C8_DisabledIsIdentity ==
    ~RERANK_ENABLE =>
        /\ calls = <<>>
        /\ blocks = input
        /\ ~raised
        /\ RefineOver => response # 500 \/ input = <<>>

C8_Witness ==
    /\ ~RERANK_ENABLE
    /\ pc = "done"
    /\ response = 200
    /\ \E j \in Indices : Eligible(j) /\ Len(blocks[j].results) = MaxPassages

\* C9: a result with no query text or no passages passes through refine
\* unchanged and causes no scorer call, while the other results of the same
\* batch are still refined.
C9_SkippedPassThrough ==
    (RefineOver /\ RERANK_ENABLE) =>
        \A j \in Indices :
            ~Eligible(j) =>
                /\ blocks[j] = input[j]
                /\ CallsFor(j) = {}
                /\ \A k \in Indices :
                      (Eligible(k) /\ ~ScorerRaised(k)) => Refined(k)

\* C10: after a successful refinement of a result, every output passage is one
\* of its first K input passages and appears at most once; no passage from an
\* input position beyond K is in the output, and no passage is invented.
C10_OutputWithinWindow ==
    \A j \in replaced :
        LET out == blocks[j].results
            in == input[j].results
        IN  /\ \A a \in 1..Len(out) : IsCandidate(j, out[a])
            /\ \A a, b \in 1..Len(out) : a # b => out[a] # out[b]
            /\ \A a \in 1..Len(out) :
                  \A b \in (WindowOf(j) + 1)..Len(in) : out[a] # in[b]

C10_Witness ==
    /\ pc = "done"
    /\ response = 200
    /\ \E j \in replaced : Len(input[j].results) > WindowOf(j)

\* C11: refinement is idempotent when the scorer is deterministic: refining an
\* already refined result whose passage count is within the final window gives
\* the same passages in the same order, with no further truncation.
C11_RefineIdempotent ==
    (pass = 1 /\ RefineOver) =>
        \A j \in 1..Len(firstOut.blocks) :
            Len(firstOut.blocks[j].results) <= RERANK_FINAL_N =>
                blocks[j] = firstOut.blocks[j]

C11_Witness ==
    /\ pass = 1
    /\ pc = "done"
    /\ response = 200
    /\ 1 \in firstOut.replaced
    /\ 1 \in replaced
    /\ Len(calls) = 1

\* two embed_query calls in a row, on the same text, the first of which returned
TwiceInARow ==
    /\ last.op = "embed_query"
    /\ prev.op = "embed_query"
    /\ prev.arg = last.arg
    /\ ~prev.raised

SecondIsAHit ==
    /\ ~last.raised
    /\ last.ret = prev.ret
    /\ last.hit
    /\ last.loads = 0
    /\ last.encoded = <<>>

\* C12 as stated: embed_query called twice in a row with the same text returns
\* the same vector, and the second call is a cache hit that neither loads nor
\* invokes the model.
C12_TwiceIsAHit == TwiceInARow => SecondIsAHit

\* C12, amended: with a cache capacity of at least 1, embed_query called twice
\* in a row with the same text returns the same vector, and the second call is
\* a cache hit that neither loads nor invokes the model.
C12_TwiceIsAHitWithCapacity == (CACHE_SIZE >= 1 /\ TwiceInARow) => SecondIsAHit

C12_Witness ==
    /\ CACHE_SIZE >= 1
    /\ TwiceInARow
    /\ last.hit
    /\ last.ret.v # <<0, 0>>

\* the last n elements of a sequence
Suffix(seq, n) == SubSeq(seq, Len(seq) - n + 1, Len(seq))

CachedTexts == [j \in 1..Len(cache) |-> cache[j].key[2]]

\* C13: the cache never holds more than CACHE_SIZE entries; it holds the
\* CACHE_SIZE texts most recently served (by a miss that inserted or by a hit),
\* so a miss on a full cache has evicted the least recently used one; a miss
\* invokes the model.
C13_BoundedLRU ==
    /\ Len(cache) <= CACHE_SIZE
    /\ CachedTexts = Suffix(useOrder, Min(CACHE_SIZE, Len(useOrder)))
    /\ (last.op = "embed_query" /\ ~last.hit) => (last.loads = 1 \/ last.encoded = <<<<last.arg>>>>)

\* capacity 2, three texts served, and the one served first asked again: a miss
C13_Witness ==
    /\ CACHE_SIZE = 2
    /\ Len(useOrder) = 3
    /\ last.again
    /\ ~last.hit
    /\ ~last.raised
    /\ last.encoded = <<<<last.arg>>>>
    /\ CachedTexts = <<useOrder[2], last.arg>>

\* two texts with the same truncated hash
Collide(t, u) == t # u /\ sha256_16(t) = sha256_16(u)

\* C14: an embed_query(t) that returns, returns the encoding made for t, by a
\* hit or by a miss, also when texts with equal truncated hashes have been
\* embedded: a lookup never yields what was stored for another text.
C14_NoCollision ==
    (last.op = "embed_query" /\ ~last.raised) =>
        /\ last.ret.of = last.arg
        /\ last.hit => last.again

\* a hit for a text while a text of the same truncated hash is cached too
C14_Witness ==
    /\ last.op = "embed_query"
    /\ ~last.raised
    /\ last.hit
    /\ \E j \in 1..Len(cache) : Collide(cache[j].key[2], last.arg)

\* C15: a step (an embed_query, or a caller writing into the list it was
\* handed) never changes the vector stored under a key that stays in the
\* cache: an entry keeps the value it was inserted with until it is evicted.
C15_EntriesImmutable ==
    [][\A j \in 1..Len(cache), k \in 1..Len(cache') :
          cache[j].key = cache'[k].key => cache[j].value = cache'[k].value]_vars

\* the caller has overwritten the list a hit handed out; the entry is intact
C15_Witness ==
    /\ last.hit
    /\ held.mutated
    /\ held.obj.v[1] = Poison
    /\ \E j \in 1..Len(cache) :
        /\ cache[j].key = CacheKey(last.arg)
        /\ cache[j].value.v = last.ret.v
        /\ cache[j].value.v # held.obj.v

\* two embed_query calls in a row on the same text, the first of which raised
TwiceAfterFailure ==
    /\ last.op = "embed_query"
    /\ prev.op = "embed_query"
    /\ prev.arg = last.arg
    /\ prev.raised

\* an embed_query in which m.encode was called and raised
EncodeFailed(call) == call.op = "embed_query" /\ call.raised /\ call.encoded # <<>>

\* C16: an embed_query(t) whose encode fails raises to its caller and hands
\* out no vector, leaves the cache as it was, without an entry for t; the next
\* embed_query(t) is a miss that goes to the model again.
C16_EncodeFailureNotCached ==
    /\ [][EncodeFailed(last') =>
            /\ cache' = cache
            /\ ~InCache(cache', CacheKey(last'.arg))
            /\ last'.ret = NoVec
            /\ held' = NoHeld]_vars
    /\ [](TwiceAfterFailure => (~last.hit /\ (last.loads = 1 \/ last.encoded = <<<<last.arg>>>>)))

\* the model is loaded, the cache is not empty, encode has failed for a text
\* and the next call for it has encoded it
C16_Witness ==
    /\ TwiceAfterFailure
    /\ ~loadFailed
    /\ Len(cache) = 2
    /\ ~last.raised
    /\ last.encoded = <<<<last.arg>>>>

\* C17: each model is constructed at most once, whatever the interleaving of
\* the callers: no second constructor call returns, and a global that holds a
\* handle keeps that handle.
C17_BuiltOnce ==
    /\ \A kind \in Kinds : built[kind] <= 1
    /\ \A w \in Workers : wpc[w].at = "return" => wpc[w].got = Global(wpc[w].kind)

\* C18: once the construction of the embedding model has failed, the component
\* serves nothing: every later embed_query raises, and none calls the
\* constructor again.
C18_LoadFailureIsFatal ==
    [][(loadFailed /\ last' # last) => (last'.raised /\ last'.loads = 0)]_vars

EmptyEmbed == last.op = "embed_documents" /\ last.arg = <<>>

EmptyScore == last.op = "rerank" /\ last.arg.passages = <<>>

\* C19: embed_documents([]) and rerank(q, []) return an empty list, raise
\* nothing, call no constructor and pass nothing to a model, whether or not
\* the model has been loaded.
C19_EmptyIsFree ==
    (EmptyEmbed \/ EmptyScore) =>
        /\ ~last.raised
        /\ last.ret = <<>>
        /\ last.loads = 0
        /\ last.encoded = <<>>

\* rerank(q, []) has returned and neither model has been built or tried
C19_Witness ==
    /\ EmptyScore
    /\ ~last.raised
    /\ _R = NoModel
    /\ _model = NoModel
    /\ ~loadFailed

RECURSIVE Flatten(_)
Flatten(seqs) == IF seqs = <<>> THEN <<>> ELSE Head(seqs) \o Flatten(Tail(seqs))

\* C20: an embed_documents that returns gives one vector per text, the i-th
\* the encoding of the i-th text, for every DEFAULT_BATCH >= 1 and every
\* length: the chunks passed to encode are the texts in order, each once.
C20_OrderPreserving ==
    (last.op = "embed_documents" /\ ~last.raised) =>
        /\ Len(last.ret) = Len(last.arg)
        /\ \A j \in 1..Len(last.arg) : last.ret[j].of = last.arg[j]
        /\ Flatten(last.encoded) = last.arg
        /\ \A k \in 1..Len(last.encoded) : Len(last.encoded[k]) \in 1..DEFAULT_BATCH

\* three different texts in batches of two: the last batch is partial
C20_Witness ==
    /\ last.op = "embed_documents"
    /\ ~last.raised
    /\ DEFAULT_BATCH = 2
    /\ last.arg = <<3, 1, 2>>
    /\ last.encoded = <<<<3, 1>>, <<2>>>>
    /\ last.ret[3].of = 2

\* a date field that holds nothing, and one that holds an ISO-8601 text
AbsentDate(d) == d.kind = "none"

PresentDate(d) == d.kind = "iso"

\* the epoch seconds of the instant an ISO-8601 text denotes, rounded down;
\* a text without zone denotes local time
EpochOf(d, tz) ==
    d.wall - (IF d.zone = "" THEN tz ELSE IF d.zone = "+01:00" THEN Hour ELSE 0)

Has(d, key) == key \in DOMAIN d

AtLeast(d, tz) == [op |-> "$gte", n |-> EpochOf(d, tz)]

AtMost(d, tz) == [op |-> "$lte", n |-> EpochOf(d, tz)]

\* the createdAt part of a predicate is what the claim says for the dates
DateRangeOf(out, f, tz) ==
    IF PresentDate(f.start_date) /\ PresentDate(f.end_date)
    THEN /\ Has(out, "$and")
         /\ out["$and"] = <<[created_at |-> AtLeast(f.start_date, tz)],
                            [created_at |-> AtMost(f.end_date, tz)]>>
         /\ ~Has(out, "created_at")
    ELSE IF PresentDate(f.start_date)
    THEN /\ Has(out, "created_at")
         /\ out["created_at"] = AtLeast(f.start_date, tz)
         /\ ~Has(out, "$and")
    ELSE IF PresentDate(f.end_date)
    THEN /\ Has(out, "created_at")
         /\ out["created_at"] = AtMost(f.end_date, tz)
         /\ ~Has(out, "$and")
    ELSE ~Has(out, "created_at") /\ ~Has(out, "$and")

\* a filter whose date fields are absent or hold a date
DatesWellFormed(f) ==
    /\ AbsentDate(f.start_date) \/ PresentDate(f.start_date)
    /\ AbsentDate(f.end_date) \/ PresentDate(f.end_date)

\* C21: with both dates the predicate holds the conjunction of
\* created_at >= epoch(start_date) and created_at <= epoch(end_date), with one
\* date the one-sided constraint, with none no created_at constraint.
C21_DateRange ==
    (pure.op = "where" /\ DatesWellFormed(pure.arg)) =>
        /\ ~pure.raised
        /\ DateRangeOf(pure.out, pure.arg, TZ)

\* the filter of scenario 3: {source: "file", startDate: "2024-01-01T00:00:00Z"}
Scenario3 ==
    [document_id |-> None, source_id |-> None, author |-> None, source |-> Source("file"),
     start_date |-> [kind |-> "iso", wall |-> Jan2024, frac |-> 0, zone |-> "Z"],
     end_date |-> NoDate]

\* C22: a filter that translates gives an equality constraint for each scalar
\* field that is not None and for source (as the string of the enum member),
\* none for a field that is None, and nothing but these and the date
\* constraints; no field set gives the empty predicate; scenario 3 gives
\* source == "file" and created_at >= 1704067200.
C22_ScalarFields ==
    (pure.op = "where" /\ ~pure.raised) =>
        /\ \A k \in ScalarFilterFields :
            IF pure.arg[k] = None THEN ~Has(pure.out, k)
            ELSE Has(pure.out, k) /\ pure.out[k] = pure.arg[k]
        /\ IF pure.arg.source = PyNone THEN ~Has(pure.out, "source")
           ELSE Has(pure.out, "source") /\ pure.out["source"] \in SourceValues
                /\ pure.out["source"] = pure.arg.source.value
        /\ DOMAIN pure.out \subseteq ScalarFilterFields \cup {"source", "created_at", "$and"}
        /\ (/\ \A k \in ScalarFilterFields : pure.arg[k] = None
            /\ pure.arg.source = PyNone
            /\ AbsentDate(pure.arg.start_date)
            /\ AbsentDate(pure.arg.end_date)) => DOMAIN pure.out = {}
        /\ pure.arg = Scenario3 =>
            /\ DOMAIN pure.out = {"source", "created_at"}
            /\ pure.out["source"] = "file"
            /\ pure.out["created_at"] = [op |-> "$gte", n |-> 1704067200]

C22_Witness ==
    /\ pure.op = "where"
    /\ pure.arg = Scenario3
    /\ ~pure.raised
    /\ pure.out["created_at"].n = 1704067200

\* a date text and the text read back denote the same instant, to the second
SameSecond(d, back, tz) == PresentDate(back) /\ EpochOf(back, tz) = EpochOf(d, tz)

\* C23: metadata that is stored and read back has, in every field, the value
\* it had: None where it was None, the same value elsewhere, created_at the
\* same instant in whole seconds.
C23_RoundTrip ==
    (pure.op = "roundtrip" /\ ~pure.raised) =>
        /\ \A k \in TextMetadataFields : pure.out[k] = pure.arg[k]
        /\ pure.out.source = pure.arg.source
        /\ pure.out.filesize = pure.arg.filesize
        /\ IF PresentDate(pure.arg.created_at)
           THEN SameSecond(pure.arg.created_at, pure.out.created_at, TZ)
           ELSE pure.out.created_at = pure.arg.created_at

\* a date field that holds a text that is no date
Unparseable(d) == d.kind = "text"

MalformedFilter(f) ==
    f # PyNone /\ (Unparseable(f.start_date) \/ Unparseable(f.end_date))

Malformed(queries) == \E k \in 1..Len(queries) : MalformedFilter(queries[k].filter)

\* C24: a request with an unparseable date in a filter is rejected as the
\* client's error (a 4xx answer that can name the filter), and no search is
\* made for it.
C24_MalformedRejected ==
    (pc = "done" /\ Malformed(request)) =>
        /\ response \in 400..499
        /\ searches = <<>>

\* the blocks the backend found for the request, as _query returned them
FoundFor(j) == input[j].results

IsSubsequenceOf(sub, seq) ==
    \A a \in 1..Len(sub) : \E b \in 1..Len(seq) : sub[a] = seq[b]

\* C25: an answered request has one result per query, in the order of the
\* queries: the j-th carries the text of the j-th query and passages found
\* for it, at most top_k of them, all of them when refinement is disabled.
C25_OnePerQueryInOrder ==
    (pc = "done" /\ response = 200) =>
        /\ Len(blocks) = Len(request)
        /\ \A j \in 1..Len(request) :
            /\ blocks[j].query = request[j].query
            /\ IsSubsequenceOf(blocks[j].results, FoundFor(j))
            /\ Len(blocks[j].results) <= request[j].top_k
            /\ RefinementDisabled => blocks[j].results = FoundFor(j)
        /\ Len(searches) = Len(request)
        /\ \A j \in 1..Len(request) : searches[j].query = j

\* two queries with different texts, refinement on, one block replaced
C25_Witness ==
    /\ pc = "done"
    /\ response = 200
    /\ Len(request) = 2
    /\ request[1].query # request[2].query
    /\ RERANK_ENABLE
    /\ replaced # {}
    /\ \E j \in 1..2 : Len(blocks[j].results) = MaxPassages


\* ---------------------------------------------------------------- C26
EmbedOneReturned == last.op = "embed_query" /\ ~last.raised

ZeroVector == <<0, 0>>

\* C26 (as stated): every vector embed_query returns has L2 norm 1, whatever
\* row the model produced for the text.
C26_UnitNorm ==
    EmbedOneReturned => l2norm(last.ret.v) = 1

\* C26 (amended): every vector embed_query returns has L2 norm 1, unless it
\* is the zero vector, which is what a zero row of the model is turned into.
C26_UnitNormUnlessZero ==
    EmbedOneReturned => (l2norm(last.ret.v) = 1 \/ last.ret.v = ZeroVector)

\* a text was encoded in the call (a miss) and its row, of norm 2 as the
\* model produced it, came back with norm 1
C26_Witness ==
    /\ EmbedOneReturned
    /\ ~last.hit
    /\ last.encoded # <<>>
    /\ last.ret.v # ZeroVector
    /\ l2norm(last.ret.v) = 1

\* ---------------------------------------------------------------- C27
NoKeyTwice(c) == \A j, k \in 1..Len(c) : c[j].key = c[k].key => j = k

\* C27: under every interleaving of concurrent embed_query calls, each cache
\* entry is stored under the key of one text and holds the vector computed
\* for that text, no key is stored twice, the cache holds at most CACHE_SIZE
\* entries, and every call that returns hands back the vector of its own text.
C27_MappingIntact ==
    /\ \A j \in 1..Len(cache) :
        /\ cache[j].key = CacheKey(cache[j].key[2])
        /\ cache[j].value.of = cache[j].key[2]
        /\ cache[j].value.kind = "tuple"
    /\ NoKeyTwice(cache)
    /\ Len(cache) <= CACHE_SIZE
    /\ \A w \in Workers :
        wpc[w].at = "returned" => (wpc[w].val.of = wpc[w].text /\ wpc[w].val.kind = "list")

\* two callers missed the same text, both ran the function and both have
\* stored and returned; the key is in the cache once
C27_Witness ==
    \E w1, w2 \in Workers :
        /\ w1 # w2
        /\ wpc[w1].at = "returned" /\ wpc[w2].at = "returned"
        /\ ~wpc[w1].hit /\ ~wpc[w2].hit
        /\ wpc[w1].text = wpc[w2].text
        /\ InCache(cache, CacheKey(wpc[w1].text))

\* ---------------------------------------------------------------- C28
\* C28: when the refinement of the j-th result raises, _maybe_rerank returns
\* normally; every result before j is as its own iteration left it (the
\* window in ranked order cut to the final window, or its input when it was
\* skipped), the j-th and every later result hold their input passages, and
\* the scorer is not called for a result after j.
C28_PartiallyRefined ==
    (RefineOver /\ failedAt # 0) =>
        /\ ~raised
        /\ response # 500
        /\ \A k \in Indices :
            /\ (k < failedAt /\ Eligible(k)) =>
                  /\ k \in replaced
                  /\ ScoredOk(k)
                  /\ blocks[k].query = input[k].query
                  /\ blocks[k].results =
                        final(ranked(items(input[k]), ScoresOf(k)).value)
            /\ (k < failedAt /\ ~Eligible(k)) => blocks[k] = input[k]
            /\ k >= failedAt => (blocks[k] = input[k] /\ k \notin replaced)
        /\ \A c \in 1..Len(calls) : calls[c].block <= failedAt

\* the first result was refined, the second, of several passages, raised,
\* and the request was answered
C28_Witness ==
    /\ pc = "done"
    /\ response = 200
    /\ failedAt = 2
    /\ 1 \in replaced
    /\ Len(input[2].results) >= 2

\* ---------------------------------------------------------------- C29
Overridden(e) == e.set /\ e.s # ""

AppleSiliconWithMPS == host.system = "Darwin" /\ host.machine = "arm64" /\ host.mps

IsCudaDevice(d) == d \in {"cuda", "cuda:0", "cuda:1"}

\* the policy, for the device chosen under the override e
ChosenInOrder(device, e) ==
    /\ Overridden(e) => device = e.s
    /\ (~Overridden(e) /\ AppleSiliconWithMPS) => device = "mps"
    /\ (~Overridden(e) /\ ~AppleSiliconWithMPS /\ host.cuda) => device = "cuda:0"
    /\ (~Overridden(e) /\ ~AppleSiliconWithMPS /\ ~host.cuda) => device = "cpu"

\* C29: both devices are chosen by the same ordered policy (override, then
\* MPS on Darwin/arm64 when available, then CUDA when available, then CPU),
\* each model is built on its chosen device, and a model is built with fp16
\* only on a cuda device.
C29_DevicePolicy ==
    /\ ChosenInOrder(DEFAULT_DEVICE, host.EMBEDDING_DEVICE)
    /\ ChosenInOrder(_DEVICE, host.RERANK_DEVICE)
    /\ host.EMBEDDING_DEVICE = host.RERANK_DEVICE => DEFAULT_DEVICE = _DEVICE
    /\ \A k \in 1..Len(events) :
        /\ events[k].op = "BGEM3FlagModel" => events[k].device = DEFAULT_DEVICE
        /\ events[k].op = "FlagReranker" => events[k].device = _DEVICE
        /\ events[k].use_fp16 => IsCudaDevice(events[k].device)
        /\ events[k].device \in {"mps", "cpu"} => ~events[k].use_fp16

\* no override on an Apple Silicon host where both probes answer yes: both
\* models were built, on MPS and without fp16
C29_Witness ==
    /\ ~Overridden(host.EMBEDDING_DEVICE)
    /\ ~Overridden(host.RERANK_DEVICE)
    /\ AppleSiliconWithMPS
    /\ host.cuda
    /\ _model # NoModel
    /\ _R # NoModel
    /\ Len(events) = 2
    /\ \A k \in 1..2 : events[k].device = "mps" /\ ~events[k].use_fp16

\* ---------------------------------------------------------------- C30
IsReclaim(e) == e.op \in {"torch.mps.empty_cache", "torch.cuda.empty_cache"}

Positions(op) == {k \in 1..Len(events) : events[k].op = op}

ReclaimedBetween(a, b) == \E c \in (a + 1)..(b - 1) : IsReclaim(events[c])

ReclaimedAfter(a) == \E c \in (a + 1)..Len(events) : IsReclaim(events[c])

EmbedManyCalled == last.op = "embed_documents"

ScoreReturned == last.op = "rerank" /\ ~last.raised /\ last.arg.passages # <<>>

\* between two batch encodes of the call there is a reclamation, and in a
\* call that returns one follows the last batch too
BatchesReclaimed ==
    /\ \A a, b \in Positions("encode") : a < b => ReclaimedBetween(a, b)
    /\ ~last.raised => \A a \in Positions("encode") : ReclaimedAfter(a)

ScoreReclaimed == \A a \in Positions("compute_score") : ReclaimedAfter(a)

Accelerated(device) == device = "mps" \/ IsCudaDevice(device)

\* C30 (as stated): in every embed_documents call a reclamation lies between
\* two batch encodes, and every non-empty rerank call that returns has
\* reclaimed after scoring.
C30_ReclaimedAfterEveryBatch ==
    /\ EmbedManyCalled => BatchesReclaimed
    /\ ScoreReturned => ScoreReclaimed

\* C30 (amended): the same on an accelerator (mps or a cuda device); on any
\* other device no reclamation step is made.
C30_ReclaimedOnAccelerator ==
    /\ (EmbedManyCalled /\ Accelerated(DEFAULT_DEVICE)) => BatchesReclaimed
    /\ (ScoreReturned /\ Accelerated(_DEVICE)) => ScoreReclaimed
    /\ (EmbedManyCalled /\ ~Accelerated(DEFAULT_DEVICE)) =>
          \A k \in 1..Len(events) : ~IsReclaim(events[k])
    /\ (ScoreReturned /\ ~Accelerated(_DEVICE)) =>
          \A k \in 1..Len(events) : ~IsReclaim(events[k])

\* an embed_documents of two batches on a cuda device has returned: encode,
\* empty_cache, encode, empty_cache
C30_Witness ==
    /\ EmbedManyCalled
    /\ ~last.raised
    /\ IsCudaDevice(DEFAULT_DEVICE)
    /\ Len(last.encoded) = 2
    /\ Cardinality(Positions("encode")) = 2
    /\ Cardinality(Positions("torch.cuda.empty_cache")) = 2
    /\ IsReclaim(events[Len(events)])

====
